---- MODULE Spec2Model ----
(***************************************************************************)
(* Model of the Autonomous Asset Platform backend (src/main.py,            *)
(* src/schemas.py): HTTP handlers running in worker threads over one       *)
(* shared document store.  Every store operation of a handler is one       *)
(* atomic step (the store is atomic per single operation only), so the     *)
(* handlers of different workers interleave between store operations.      *)
(*                                                                         *)
(* Abstractions: timestamps are the token "now"; an email address is the   *)
(* record [local, domain] with domain the sequence of dot-separated        *)
(* labels; an identifier is fresh among the documents of its collection;   *)
(* None is the string "None" and an empty dict the record [empty |-> "dict"]. *)
(***************************************************************************)
EXTENDS Integers, Sequences, FiniteSets, TLC

\* ------------------------------------------------------------ bounds
\* Handler invocations started in one behaviour.
MaxCalls == 2
\* Times the store may become unreachable in one behaviour.
MaxOutages == 1
\* Backtest day counts are drawn from DaysSpan around each clamp edge.
DaysSpan == 1

\* The worker threads serving requests (the claims speak of two callers).
Procs == {"w1", "w2"}

\* ------------------------------------------------------------ data
critical ==
  <<"user", "role", "product", "affiliate", "strategy", "trade", "video",
    "job", "audit", "contactmessage">>

Collections == {critical[i] : i \in 1..Len(critical)}

AdminEmail == [local |-> "admin", domain |-> <<"local">>]
BobEmail == [local |-> "bob", domain |-> <<"x", "io">>]
Emails == {AdminEmail, BobEmail}

\* Settings maps a request may carry (Dict[str, Any]).
SettingsMaps ==
  { [theme |-> "light"], [lang |-> "en"], [theme |-> "dark", lang |-> "fr"] }

\* pydantic's EmailStr: the domain part must contain a period.
EmailStrValid(e) == Len(e.domain) >= 2

\* Role(name="admin", permissions=["*"]).model_dump()
AdminRole == [name |-> "admin", permissions |-> <<"*">>]

\* User(name=..., email=..., role=..., settings=...).model_dump()
UserDump(name, email, role, settings) ==
  [name |-> name, email |-> email, role |-> role, avatar_url |-> "None",
   settings |-> settings, is_active |-> TRUE]

\* Audit(action=..., actor=..., severity="info", details=...).model_dump()
AuditDump(action, actor, details) ==
  [action |-> action, actor |-> actor, severity |-> "info", details |-> details]

\* ------------------------------------------------------------ state
VARIABLES
  dbPresent,    \* database.db is not None (fixed at process start)
  storeUp,      \* the store answers; when FALSE every store operation raises
  created,      \* names list_collection_names() returns
  coll,         \* collection name -> sequence of documents, in insertion order
  pc,           \* worker -> position in its handler
  loc,          \* worker -> the handler's local variables
  result,       \* worker -> what its last finished invocation returned or raised
  calls,        \* invocations started so far
  outages,      \* times the store became unreachable so far
  overlapped,   \* some invocation started while another was in progress
  quiet,        \* worker -> its current/last invocation ran alone on a reachable store
  healAborted,  \* some heal was cut off by a store failure
  absentSeen,   \* heal role queries that found no admin role
  lastSet,      \* email -> settings of the last update_one applied to it
  cleanStart    \* the process started on an empty store

vars ==
  <<dbPresent, storeUp, created, coll, pc, loc, result, calls, outages,
    overlapped, quiet, healAborted, absentSeen, lastSet, cleanStart>>

NoLoc == [idx |-> 0, ensured |-> <<>>, roles |-> <<>>, admins |-> <<>>,
          req |-> [email |-> BobEmail, settings |-> [none |-> "none"]]]
NoResult == [kind |-> "none"]
NoSettings == [none |-> "none"]

\* ------------------------------------------------------------ store
IsMarker(d) == "_ensure" \in DOMAIN d

Matches(d, field, value) == field \in DOMAIN d /\ d[field] = value

\* Positions of the documents of sequence s matching {field: value}.
MatchIdx(s, field, value) == {i \in 1..Len(s) : Matches(s[i], field, value)}

Min(S) == CHOOSE x \in S : \A y \in S : x <= y

\* (mutant) the query never matches
FindLimit1NoMatch(s, field, value) == <<>>

\* find(filter).limit(1) as a list
FindLimit1(s, field, value) ==
  IF MatchIdx(s, field, value) = {} THEN <<>>
  ELSE <<s[Min(MatchIdx(s, field, value))]>>

\* An _id no document of s carries.
FreshId(s) ==
  Min({n \in 1..(Len(s) + 1) : \A i \in 1..Len(s) : s[i]._id # n})

WithField(d, f, v) ==
  [k \in DOMAIN d \cup {f} |-> IF k = f THEN v ELSE d[k]]

\* insert_one(doc): the server assigns _id and appends.
InsertOne(s, d) == Append(s, WithField(d, "_id", FreshId(s)))

\* (mutant) delete_many({})
DeleteEverything(s) == <<>>

\* delete_many({"_ensure": True})
DeleteMarkers(s) == SelectSeq(s, LAMBDA d : ~IsMarker(d))

\* create_document(collection, data): stamps the insertion time and inserts.
CreateDocument(s, d) == InsertOne(s, WithField(d, "created_at", "now"))

\* (mutant) the guard is missing
DbNeverNone == FALSE

\* _collection(name) / heal's own guard: db is None
DbIsNone == ~dbPresent

AdminRoles == MatchIdx(coll["role"], "name", "admin")
AdminUsers == MatchIdx(coll["user"], "email", AdminEmail)
Markers(c) == {i \in 1..Len(coll[c]) : IsMarker(coll[c][i])}

OthersIdle(p) == \A q \in Procs \ {p} : pc[q] = "idle"

EmptyStore == [c \in Collections |-> <<>>]

\* What POST /api/settings {"email": "admin@local", "settings": {"theme": "light"}}
\* leaves in an empty store: the upserted user and its audit record.
UpsertedAdminStore ==
  [EmptyStore EXCEPT
     !["user"] = <<[_id |-> 1, email |-> AdminEmail,
                    settings |-> [theme |-> "light"], updated_at |-> "now"]>>,
     !["audit"] = <<[_id |-> 1, action |-> "settings_update",
                     actor |-> AdminEmail, severity |-> "info",
                     details |-> [empty |-> "dict"], created_at |-> "now"]>>]

\* The store outlives the process: a configured deployment starts on an empty
\* store or on the store an earlier run's settings update for admin@local left.
Init ==
  /\ dbPresent \in BOOLEAN
  /\ storeUp = TRUE
  /\ \/ /\ created = {}
        /\ coll = EmptyStore
     \/ /\ dbPresent
        /\ created = {"user", "audit"}
        /\ coll = UpsertedAdminStore
  /\ cleanStart = (coll = EmptyStore)
  /\ pc = [p \in Procs |-> "idle"]
  /\ loc = [p \in Procs |-> NoLoc]
  /\ result = [p \in Procs |-> NoResult]
  /\ calls = 0
  /\ outages = 0
  /\ overlapped = FALSE
  /\ quiet = [p \in Procs |-> TRUE]
  /\ healAborted = FALSE
  /\ absentSeen = 0
  /\ lastSet = [e \in Emails |->
                  IF ~cleanStart /\ e = AdminEmail THEN [theme |-> "light"]
                  ELSE NoSettings]

\* ------------------------------------------------------------ invocation frame
\* A request arrives at idle worker p.
Enter(p) ==
  /\ pc[p] = "idle"
  /\ calls < MaxCalls
  /\ calls' = calls + 1
  /\ overlapped' = (overlapped \/ ~OthersIdle(p))
  /\ quiet' = [q \in Procs |->
                 IF q = p THEN storeUp /\ OthersIdle(p)
                 ELSE IF pc[q] # "idle" THEN FALSE ELSE quiet[q]]

Failure(handler, code, what) ==
  [kind |-> "error", handler |-> handler, code |-> code, detail |-> what]

\* The handler of p starts at position first, unless its entry guard fails
\* (refused) with HTTPException(500, "Database not configured").
Begin(p, handler, first, refused) ==
  /\ Enter(p)
  /\ IF refused
       THEN /\ pc' = pc
            /\ result' = [result EXCEPT ![p] =
                 Failure(handler, 500, "Database not configured")]
       ELSE /\ pc' = [pc EXCEPT ![p] = first]
            /\ result' = [result EXCEPT ![p] = NoResult]

\* The handler of p raises: the invocation ends with an unhandled error.
Raise(p, handler, what) ==
  /\ pc' = [pc EXCEPT ![p] = "idle"]
  /\ result' = [result EXCEPT ![p] = Failure(handler, 500, what)]

\* ------------------------------------------------------------ heal
HealStart(p) ==
  /\ Begin(p, "heal", "ensure_insert", DbIsNone)
  /\ loc' = [loc EXCEPT ![p] = [NoLoc EXCEPT !.idx = 1]]
  /\ UNCHANGED <<dbPresent, storeUp, created, coll, outages, healAborted,
                 absentSeen, lastSet, cleanStart>>

HealRaiseStore(p) ==
  /\ Raise(p, "heal", "store unreachable")
  /\ healAborted' = TRUE
  /\ UNCHANGED <<dbPresent, storeUp, created, coll, loc, calls, outages,
                 overlapped, quiet, absentSeen, lastSet, cleanStart>>

\* _collection(c).insert_one({"_ensure": True, "ts": _now()})
EnsureInsert(p) ==
  /\ pc[p] = "ensure_insert"
  /\ IF ~storeUp THEN HealRaiseStore(p)
     ELSE LET c == critical[loc[p].idx] IN
          /\ coll' = [coll EXCEPT ![c] =
                        InsertOne(@, [_ensure |-> TRUE, ts |-> "now"])]
          /\ created' = created \cup {c}
          /\ pc' = [pc EXCEPT ![p] = "ensure_delete"]
          /\ UNCHANGED <<dbPresent, storeUp, loc, result, calls, outages,
                         overlapped, quiet, healAborted, absentSeen, lastSet, cleanStart>>

\* _collection(c).delete_many({"_ensure": True}); ensured.append(c)
EnsureDelete(p) ==
  /\ pc[p] = "ensure_delete"
  /\ IF ~storeUp THEN HealRaiseStore(p)
     ELSE LET c == critical[loc[p].idx] IN
          /\ coll' = [coll EXCEPT ![c] = DeleteMarkers(@)]
          /\ loc' = [loc EXCEPT ![p].idx = @ + 1,
                                ![p].ensured = Append(@, c)]
          /\ pc' = [pc EXCEPT ![p] =
                      IF loc[p].idx = Len(critical) THEN "find_role"
                      ELSE "ensure_insert"]
          /\ UNCHANGED <<dbPresent, storeUp, created, result, calls, outages,
                         overlapped, quiet, healAborted, absentSeen, lastSet, cleanStart>>

\* roles = list(_collection("role").find({"name": "admin"}).limit(1))
FindRole(p) ==
  /\ pc[p] = "find_role"
  /\ IF ~storeUp THEN HealRaiseStore(p)
     ELSE LET roles == FindLimit1(coll["role"], "name", "admin") IN
          /\ loc' = [loc EXCEPT ![p].roles = roles]
          /\ pc' = [pc EXCEPT ![p] =
                      IF roles = <<>> THEN "seed_role" ELSE "find_user"]
          /\ absentSeen' = IF roles = <<>> THEN absentSeen + 1 ELSE absentSeen
          /\ UNCHANGED <<dbPresent, storeUp, created, coll, result, calls,
                         outages, overlapped, quiet, healAborted, lastSet, cleanStart>>

\* if not roles: create_document("role", Role(...).model_dump())
SeedRole(p) ==
  /\ pc[p] = "seed_role"
  /\ IF ~storeUp THEN HealRaiseStore(p)
     ELSE /\ coll' = [coll EXCEPT !["role"] = CreateDocument(@, AdminRole)]
          /\ created' = created \cup {"role"}
          /\ pc' = [pc EXCEPT ![p] = "find_user"]
          /\ UNCHANGED <<dbPresent, storeUp, loc, result, calls, outages,
                         overlapped, quiet, healAborted, absentSeen, lastSet, cleanStart>>

\* admins = list(_collection("user").find({"email": "admin@local"}).limit(1))
FindUser(p) ==
  /\ pc[p] = "find_user"
  /\ IF ~storeUp THEN HealRaiseStore(p)
     ELSE LET admins == FindLimit1(coll["user"], "email", AdminEmail) IN
          /\ loc' = [loc EXCEPT ![p].admins = admins]
          /\ pc' = [pc EXCEPT ![p] =
                      IF admins = <<>> THEN "seed_user" ELSE "heal_audit"]
          /\ UNCHANGED <<dbPresent, storeUp, created, coll, result, calls,
                         outages, overlapped, quiet, healAborted, absentSeen,
                         lastSet, cleanStart>>

\* if not admins: create_document("user", User(..., email="admin@local", ...).model_dump())
\* User(...) validates its email field before the store is touched.
SeedUser(p) ==
  /\ pc[p] = "seed_user"
  /\ IF ~EmailStrValid(AdminEmail)
       THEN /\ Raise(p, "heal", "ValidationError")
            /\ UNCHANGED <<dbPresent, storeUp, created, coll, loc, calls,
                           outages, overlapped, quiet, healAborted, absentSeen,
                           lastSet, cleanStart>>
     ELSE IF ~storeUp THEN HealRaiseStore(p)
     ELSE /\ coll' = [coll EXCEPT !["user"] =
                 CreateDocument(@, UserDump("Administrator", AdminEmail,
                                            "admin", [theme |-> "dark"]))]
          /\ created' = created \cup {"user"}
          /\ pc' = [pc EXCEPT ![p] = "heal_audit"]
          /\ UNCHANGED <<dbPresent, storeUp, loc, result, calls, outages,
                         overlapped, quiet, healAborted, absentSeen, lastSet, cleanStart>>

\* create_document("audit", Audit(action="self_heal", ...)); return {...}
HealAudit(p) ==
  /\ pc[p] = "heal_audit"
  /\ IF ~storeUp THEN HealRaiseStore(p)
     ELSE /\ coll' = [coll EXCEPT !["audit"] =
                 CreateDocument(@, AuditDump("self_heal", "system",
                                             [ensured |-> loc[p].ensured]))]
          /\ created' = created \cup {"audit"}
          /\ pc' = [pc EXCEPT ![p] = "idle"]
          /\ result' = [result EXCEPT ![p] =
               [kind |-> "heal", status |-> "ok", ensured |-> loc[p].ensured]]
          /\ UNCHANGED <<dbPresent, storeUp, loc, calls, outages, overlapped,
                         quiet, healAborted, absentSeen, lastSet, cleanStart>>

Heal(p) ==
  \/ HealStart(p)
  \/ EnsureInsert(p)
  \/ EnsureDelete(p)
  \/ FindRole(p)
  \/ SeedRole(p)
  \/ FindUser(p)
  \/ SeedUser(p)
  \/ HealAudit(p)

\* ------------------------------------------------------------ environment
\* The store becomes unreachable / reachable again.
StoreFail ==
  /\ storeUp
  /\ dbPresent
  /\ outages < MaxOutages
  /\ storeUp' = FALSE
  /\ outages' = outages + 1
  /\ quiet' = [q \in Procs |-> IF pc[q] # "idle" THEN FALSE ELSE quiet[q]]
  /\ UNCHANGED <<dbPresent, created, coll, pc, loc, result, calls, overlapped,
                 healAborted, absentSeen, lastSet, cleanStart>>

StoreRecover ==
  /\ ~storeUp
  /\ storeUp' = TRUE
  /\ UNCHANGED <<dbPresent, created, coll, pc, loc, result, calls, outages,
                 overlapped, quiet, healAborted, absentSeen, lastSet, cleanStart>>

\* ------------------------------------------------------------ settings
StripId(d) == [k \in DOMAIN d \ {"_id"} |-> d[k]]

\* (mutant) $set of the single keys "settings.<k>": the maps are merged
UpdateOneUpsertMerging(users, e, s) ==
  IF MatchIdx(users, "email", e) = {}
    THEN InsertOne(users, [email |-> e, settings |-> s, updated_at |-> "now"])
    ELSE [users EXCEPT ![Min(MatchIdx(users, "email", e))] =
            WithField(WithField(@, "settings",
                        [k \in DOMAIN @.settings \cup DOMAIN s |->
                           IF k \in DOMAIN s THEN s[k] ELSE @.settings[k]]),
                      "updated_at", "now")]

\* update_one({"email": e}, {"$set": {"settings": s, "updated_at": now}}, upsert=True)
UpdateOneUpsert(users, e, s) ==
  IF MatchIdx(users, "email", e) = {}
    THEN InsertOne(users, [email |-> e, settings |-> s, updated_at |-> "now"])
    ELSE [users EXCEPT ![Min(MatchIdx(users, "email", e))] =
            WithField(WithField(@, "settings", s), "updated_at", "now")]

\* find_one({"email": e}, {"_id": 0})
FindOneNoId(users, e) ==
  IF MatchIdx(users, "email", e) = {} THEN [none |-> "None"]
  ELSE StripId(users[Min(MatchIdx(users, "email", e))])

\* col = _collection("user")
SetStart(p, e, s) ==
  /\ Begin(p, "settings", "set_update", DbIsNone)
  /\ loc' = [loc EXCEPT ![p] = [NoLoc EXCEPT !.req = [email |-> e, settings |-> s]]]
  /\ UNCHANGED <<dbPresent, storeUp, created, coll, outages, healAborted,
                 absentSeen, lastSet, cleanStart>>

SetRaiseStore(p) ==
  /\ Raise(p, "settings", "store unreachable")
  /\ UNCHANGED <<dbPresent, storeUp, created, coll, loc, calls, outages,
                 overlapped, quiet, healAborted, absentSeen, lastSet, cleanStart>>

SetUpdate(p) ==
  /\ pc[p] = "set_update"
  /\ IF ~storeUp THEN SetRaiseStore(p)
     ELSE /\ coll' = [coll EXCEPT !["user"] =
                 UpdateOneUpsert(@, loc[p].req.email, loc[p].req.settings)]
          /\ created' = created \cup {"user"}
          /\ lastSet' = [lastSet EXCEPT ![loc[p].req.email] = loc[p].req.settings]
          /\ pc' = [pc EXCEPT ![p] = "set_audit"]
          /\ UNCHANGED <<dbPresent, storeUp, loc, result, calls, outages,
                         overlapped, quiet, healAborted, absentSeen, cleanStart>>

\* create_document("audit", Audit(action="settings_update", actor=req.email, details={}))
SetAudit(p) ==
  /\ pc[p] = "set_audit"
  /\ IF ~storeUp THEN SetRaiseStore(p)
     ELSE /\ coll' = [coll EXCEPT !["audit"] =
                 CreateDocument(@, AuditDump("settings_update", loc[p].req.email,
                                             [empty |-> "dict"]))]
          /\ created' = created \cup {"audit"}
          /\ pc' = [pc EXCEPT ![p] = "set_find"]
          /\ UNCHANGED <<dbPresent, storeUp, loc, result, calls, outages,
                         overlapped, quiet, healAborted, absentSeen, lastSet, cleanStart>>

\* doc = col.find_one({"email": req.email}, {"_id": 0}); return {"user": doc}
SetFind(p) ==
  /\ pc[p] = "set_find"
  /\ IF ~storeUp THEN SetRaiseStore(p)
     ELSE /\ pc' = [pc EXCEPT ![p] = "idle"]
          /\ result' = [result EXCEPT ![p] =
               [kind |-> "settings",
                user |-> FindOneNoId(coll["user"], loc[p].req.email)]]
          /\ UNCHANGED <<dbPresent, storeUp, created, coll, loc, calls, outages,
                         overlapped, quiet, healAborted, absentSeen, lastSet, cleanStart>>

UpdateSettings(p) ==
  \/ \E e \in Emails, s \in SettingsMaps : SetStart(p, e, s)
  \/ SetUpdate(p)
  \/ SetAudit(p)
  \/ SetFind(p)

\* ------------------------------------------------------------ users
\* create_user(user: User): the body is validated as a User, then
\* create_document("user", user) inserts it.
CreateUser(p, e, s) ==
  /\ Enter(p)
  /\ pc' = pc
  /\ IF ~EmailStrValid(e)
       THEN /\ result' = [result EXCEPT ![p] =
                 Failure("create_user", 422, "ValidationError")]
            /\ UNCHANGED <<created, coll>>
     ELSE IF DbIsNone \/ ~storeUp
       THEN /\ result' = [result EXCEPT ![p] =
                 Failure("create_user", 500, "store unreachable")]
            /\ UNCHANGED <<created, coll>>
     ELSE /\ coll' = [coll EXCEPT !["user"] =
                 CreateDocument(@, UserDump("Bob", e, "user", s))]
          /\ created' = created \cup {"user"}
          /\ result' = [result EXCEPT ![p] =
               [kind |-> "create_user", id |-> FreshId(coll["user"])]]
  /\ UNCHANGED <<dbPresent, storeUp, loc, outages, healAborted, absentSeen,
                 lastSet, cleanStart>>

\* ------------------------------------------------------------ health
\* (mutant) the except branch leaves database at its first value
HealthKeepsOk(p) ==
  /\ Enter(p)
  /\ pc' = pc
  /\ result' = [result EXCEPT ![p] =
       [kind |-> "health", backend |-> "ok",
        database |-> IF DbIsNone THEN <<"error">> ELSE <<"ok">>,
        collections |-> IF DbIsNone \/ ~storeUp THEN {} ELSE created]]
  /\ UNCHANGED <<dbPresent, storeUp, created, coll, loc, outages, healAborted,
                 absentSeen, lastSet, cleanStart>>

\* health(): database is "ok" unless db is None ("error") or
\* list_collection_names() raises ("error: <message>"); never raises itself.
Health(p) ==
  /\ Enter(p)
  /\ pc' = pc
  /\ result' = [result EXCEPT ![p] =
       [kind |-> "health", backend |-> "ok",
        database |-> IF DbIsNone THEN <<"error">>
                     ELSE IF ~storeUp THEN <<"error:", "store unreachable">>
                     ELSE <<"ok">>,
        collections |-> IF DbIsNone \/ ~storeUp THEN {} ELSE created]]
  /\ UNCHANGED <<dbPresent, storeUp, created, coll, loc, outages, healAborted,
                 absentSeen, lastSet, cleanStart>>

\* ------------------------------------------------------------ backtest
\* round(base + i * 12 + sin(i / 6.0) * 50 + cos(i / 3.0) * 10, 2) in cents,
\* for i = 0 .. 364 (entry i + 1), tabulated from the expression.
EquityCents ==
   <<
      1001000, 1002974, 1004822, 1006537, 1008127, 1009605, 1010991, 1012306,
      1013570, 1014797, 1015995, 1017163, 1018293, 1019368, 1020370, 1021276,
      1022068, 1022733, 1023266, 1023673, 1023975, 1024200, 1024391, 1024597,
      1024870, 1025265, 1025829, 1026601, 1027609, 1028866, 1030366, 1032092,
      1034010, 1036077, 1038240, 1040448, 1042647, 1044792, 1046846, 1048783,
      1050591, 1052267, 1053822, 1055270, 1056632, 1057930, 1059182, 1060400,
      1061589, 1062747, 1063862, 1064917, 1065892, 1066766, 1067521, 1068146,
      1068640, 1069013, 1069288, 1069498, 1069688, 1069909, 1070213, 1070654,
      1071277, 1072118, 1073200, 1074531, 1076102, 1077890, 1079858, 1081959,
      1084141, 1086351, 1088539, 1090660, 1092681, 1094580, 1096348, 1097986,
      1099507, 1100927, 1102268, 1103550, 1104790, 1106000, 1107180, 1108326,
      1109426, 1110459, 1111406, 1112245, 1112962, 1113547, 1114003, 1114344,
      1114595, 1114794, 1114988, 1115228, 1115568, 1116059, 1116744, 1117656,
      1118813, 1120218, 1121858, 1123704, 1125717, 1127848, 1130045, 1132253,
      1134424, 1136518, 1138504, 1140365, 1142093, 1143694, 1145182, 1146577,
      1147898, 1149166, 1150396, 1151597, 1152768, 1153902, 1154983, 1155993,
      1156909, 1157713, 1158391, 1158936, 1159356, 1159666, 1159897, 1160089,
      1160291, 1160556, 1160937, 1161482, 1162233, 1163217, 1164449, 1165927,
      1167632, 1169533, 1171587, 1173744, 1175949, 1178151, 1180303, 1182367,
      1184317, 1186137, 1187827, 1189392, 1190850, 1192220, 1193523, 1194779,
      1195999, 1197191, 1198353, 1199472, 1200535, 1201518, 1202403, 1203170,
      1203808, 1204314, 1204698, 1204981, 1205196, 1205386, 1205601, 1205895,
      1206320, 1206924, 1207742, 1208801, 1210107, 1211656, 1213424, 1215376,
      1217467, 1219644, 1221853, 1224045, 1226174, 1228206, 1230117, 1231898,
      1233549, 1235080, 1236509, 1237857, 1239144, 1240388, 1241600, 1242783,
      1243933, 1245038, 1246079, 1247035, 1247886, 1248615, 1249213, 1249681,
      1250032, 1250290, 1250492, 1250684, 1250918, 1251246, 1251720, 1252385,
      1253274, 1254407, 1255788, 1257405, 1259233, 1261232, 1263354, 1265546,
      1267756, 1269933, 1272036, 1274033, 1275906, 1277647, 1279261, 1280759,
      1282161, 1283489, 1284761, 1285995, 1287198, 1288372, 1289510, 1290598,
      1291615, 1292542, 1293357, 1294047, 1294606, 1295037, 1295357, 1295594,
      1295788, 1295987, 1296243, 1296610, 1297137, 1297867, 1298827, 1300035,
      1301489, 1303174, 1305057, 1307099, 1309248, 1311451, 1313655, 1315814,
      1317888, 1319849, 1321683, 1323385, 1324962, 1326429, 1327806, 1329115,
      1330375, 1331599, 1332793, 1333958, 1335082, 1336151, 1337143, 1338038,
      1338818, 1339468, 1339987, 1340383, 1340674, 1340894, 1341084, 1341294,
      1341578, 1341989, 1342573, 1343369, 1344404, 1345686, 1347212, 1348960,
      1350896, 1352975, 1355146, 1357355, 1359550, 1361687, 1363730, 1365654,
      1367448, 1369111, 1370653, 1372091, 1373445, 1374738, 1375985, 1377200,
      1378386, 1379540, 1380650, 1381698, 1382663, 1383525, 1384266, 1384877,
      1385358, 1385719, 1385985, 1386191, 1386382, 1386608, 1386925, 1387383,
      1388028, 1388894, 1390002, 1391359, 1392955, 1394764, 1396748, 1398860,
      1401048, 1403258, 1405440, 1407552, 1409561, 1411446, 1413200, 1414826,
      1416334, 1417745, 1419079, 1420356, 1421593, 1422799, 1423976, 1425118,
      1426211, 1427237, 1428173, 1429000, 1429703, 1430274, 1430717, 1431046,
      1431290, 1431486, 1431683, 1431931, 1432285
   >>

Max2(a, b) == IF a >= b THEN a ELSE b
Min2(a, b) == IF a <= b THEN a ELSE b

\* (mutant) min and max swapped
ClampDaysSwapped(d) == Min2(5, Max2(365, d))

\* days = max(5, min(365, req.days))
ClampDays(d) == Max2(5, Min2(365, d))

\* series[i] = {"t": now - timedelta(days = days - i), "equity": round(value, 2)}
Series(days) ==
  [j \in 1..days |-> [t |-> days - (j - 1), equity |-> EquityCents[j]]]

\* stats = {"start": series[0]["equity"], "end": series[-1]["equity"], ...}
Stats(series) ==
  [start |-> series[1].equity, end |-> series[Len(series)].equity]

BacktestDays ==
  ((5 - DaysSpan)..(5 + DaysSpan)) \cup ((365 - DaysSpan)..(365 + DaysSpan))
    \cup {-1, 1, 10000}

Backtest(p, d) ==
  /\ Enter(p)
  /\ pc' = pc
  /\ LET series == Series(ClampDays(d)) IN
     IF DbIsNone \/ ~storeUp
       THEN /\ result' = [result EXCEPT ![p] =
                 Failure("backtest", 500, "store unreachable")]
            /\ UNCHANGED <<created, coll>>
       ELSE /\ coll' = [coll EXCEPT !["job"] =
                 CreateDocument(@, [kind |-> "backtest", status |-> "completed",
                                    payload |->
                                      [symbol |-> "BTCUSDT",
                                       strategy |-> [name |-> "sma",
                                                     params |-> [empty |-> "dict"]],
                                       days |-> d],
                                    owner_email |-> "None"])]
            /\ created' = created \cup {"job"}
            /\ result' = [result EXCEPT ![p] =
                 [kind |-> "backtest", days |-> d, series |-> series,
                  stats |-> Stats(series)]]
  /\ UNCHANGED <<dbPresent, storeUp, loc, outages, healAborted, absentSeen,
                 lastSet, cleanStart>>

\* ------------------------------------------------------------ specifications
\* heal alone, on a store that may fail
NextHeal ==
  \/ \E p \in Procs : Heal(p)
  \/ StoreFail
  \/ StoreRecover

SpecHeal == Init /\ [][NextHeal]_vars

\* the user collection: settings updates and user creation
NextSettings ==
  \/ \E p \in Procs : UpdateSettings(p)
  \/ \E p \in Procs, e \in Emails, s \in SettingsMaps : CreateUser(p, e, s)

SpecSettings == Init /\ [][NextSettings]_vars

\* the health check beside user creation, on a store that may fail
NextHealth ==
  \/ \E p \in Procs : Health(p)
  \/ \E p \in Procs, e \in Emails, s \in SettingsMaps : CreateUser(p, e, s)
  \/ StoreFail
  \/ StoreRecover

SpecHealth == Init /\ [][NextHealth]_vars

\* every handler, on a store that may fail
Next ==
  \/ \E p \in Procs : Heal(p)
  \/ \E p \in Procs : UpdateSettings(p)
  \/ \E p \in Procs, e \in Emails, s \in SettingsMaps : CreateUser(p, e, s)
  \/ \E p \in Procs : Health(p)
  \/ \E p \in Procs, d \in BacktestDays : Backtest(p, d)
  \/ StoreFail
  \/ StoreRecover

Spec == Init /\ [][Next]_vars

\* the handlers that refuse to run without a store handle
NextWrites ==
  \/ \E p \in Procs : Heal(p)
  \/ \E p \in Procs : UpdateSettings(p)

SpecWrites == Init /\ [][NextWrites]_vars

\* the backtest handler
NextBacktest ==
  \/ \E p \in Procs, d \in BacktestDays : Backtest(p, d)

SpecBacktest == Init /\ [][NextBacktest]_vars

\* ------------------------------------------------------------ properties
AllIdle == \A p \in Procs : pc[p] = "idle"
NumAdminRoles == Cardinality(AdminRoles)
NumAdminUsers == Cardinality(AdminUsers)
HealOk(r) == r.kind = "heal" /\ r.status = "ok" /\ r.ensured = critical
StoreFailure(r) == r.kind = "error" /\ r.detail = "store unreachable"
NotConfigured(r, handler) ==
  r = Failure(handler, 500, "Database not configured")
NonMarkers(s) == SelectSeq(s, LAMBDA d : ~IsMarker(d))
IsPrefix(s, t) == Len(s) <= Len(t) /\ \A i \in 1..Len(s) : s[i] = t[i]
FirstUser(users, e) == users[Min(MatchIdx(users, "email", e))]

\* C1: after two heal invocations run one after the other on a reachable store
\* that started with no admin role and no admin user, the store holds exactly
\* one role named "admin" and exactly one user with email "admin@local".
C1_TwoHealsSeedOneAdminEach ==
  (dbPresent /\ cleanStart /\ ~overlapped /\ outages = 0 /\ calls >= 2 /\ AllIdle)
    => (NumAdminRoles = 1 /\ NumAdminUsers = 1)

\* C2: with the store handle present, a heal invocation that met no store
\* failure has returned status "ok" with ensured equal to the ten collection
\* names in order; the only way a heal ends otherwise is a store failure.
C2_HealOkUnlessStoreFails ==
  \A p \in Procs :
    (dbPresent /\ pc[p] = "idle" /\ result[p].kind # "none")
      => (HealOk(result[p]) \/ StoreFailure(result[p]))

\* C3: the absence query and the insert of the role seed are separate store
\* operations: every admin role was inserted after an absence query that found
\* none, and more than one admin role exists only when heal invocations
\* overlapped (the witness is the state with two admin roles).
C3_DuplicateRolesOnlyByRace ==
  /\ NumAdminRoles <= absentSeen
  /\ (NumAdminRoles >= 2 => overlapped)

C3_TwoAdminRolesReached ==
  /\ NumAdminRoles = 2
  /\ outages = 0
  /\ AllIdle

\* C5: with the store handle absent, heal and settings update end at once with
\* the 500 "Database not configured" error and the store is never touched: no
\* collection is created, no document (so no audit record) is written.
C5_NoStoreHandleNoEffect ==
  ~dbPresent =>
    /\ coll = EmptyStore
    /\ created = {}
    /\ AllIdle
    /\ \A p \in Procs :
         \/ result[p] = NoResult
         \/ NotConfigured(result[p], "heal")
         \/ NotConfigured(result[p], "settings")

C5_BothRefused ==
  /\ ~dbPresent
  /\ NotConfigured(result["w1"], "heal")
  /\ NotConfigured(result["w2"], "settings")

\* C6: after a heal was cut off by a store failure with its admin role
\* already written, the next heal, running alone on a reachable store and
\* finding that role, ends with exactly one admin role and exactly one admin
\* user.
C6_HealAfterAbortedHealRepairs ==
  [][\A p \in Procs :
       (pc[p] # "idle" /\ pc'[p] = "idle" /\ quiet[p] /\ healAborted
          /\ cleanStart /\ loc[p].roles # <<>>)
         => (NumAdminRoles' = 1 /\ NumAdminUsers' = 1)]_vars

\* C10: whenever no heal is in progress and none was cut off by a store
\* failure, no collection holds a marker document; and no step of heal removes
\* or changes a non-marker document.
C10_EnsureLoopLeavesNoTrace ==
  /\ []((AllIdle /\ ~healAborted) => \A c \in Collections : Markers(c) = {})
  /\ [][\A c \in Collections :
          IsPrefix(NonMarkers(coll[c]), NonMarkers(coll'[c]))]_vars

C10_ConcurrentHealsDone ==
  /\ AllIdle
  /\ overlapped
  /\ ~healAborted
  /\ \A p \in Procs : HealOk(result[p])
  /\ \A c \in Collections : Markers(c) = {}
  /\ created = Collections
  /\ coll["user"] = UpsertedAdminStore["user"]

\* C4 (as stated): a settings update for an unknown email creates a user with
\* that email and the given settings; for a known email it merges the given
\* settings into the stored map, keys not named keeping their values, and
\* changes no other field of that user and no other user record.
MergeSettings(old, new) ==
  [k \in DOMAIN old \cup DOMAIN new |-> IF k \in DOMAIN new THEN new[k] ELSE old[k]]

SetUpdateStep(p) == pc[p] = "set_update" /\ pc'[p] = "set_audit"

\* What update_one did to the user collection, the stored settings of a matched
\* user becoming the merged map (merge) or the given map (otherwise).
UpsertEffect(p, merge) ==
  LET users == coll["user"]
      new == coll'["user"]
      e == loc[p].req.email
      s == loc[p].req.settings
  IN IF MatchIdx(users, "email", e) = {}
       THEN /\ Len(new) = Len(users) + 1
            /\ IsPrefix(users, new)
            /\ new[Len(new)].email = e
            /\ new[Len(new)].settings = s
       ELSE /\ Len(new) = Len(users)
            /\ \E i \in MatchIdx(users, "email", e) :
                 /\ \A j \in 1..Len(users) : j # i => new[j] = users[j]
                 /\ new[i].settings = IF merge THEN MergeSettings(users[i].settings, s) ELSE s
                 /\ \A k \in DOMAIN users[i] \ {"settings", "updated_at"} :
                      k \in DOMAIN new[i] /\ new[i][k] = users[i][k]

C4_SettingsMerged ==
  [][\A p \in Procs : SetUpdateStep(p) => UpsertEffect(p, TRUE)]_vars

\* C4 (amended): a settings update for an unknown email creates a user with
\* that email and the given settings; for a known email it replaces the stored
\* settings map by the given one as a whole (keys not named are dropped) and
\* changes no other field of that user (name, role, is_active, avatar_url, email)
\* and no other user record.
C4_SettingsReplaced ==
  [][\A p \in Procs : SetUpdateStep(p) => UpsertEffect(p, FALSE)]_vars

C4_ExistingUserUpdated ==
  \E p \in Procs :
    /\ pc[p] = "set_audit"
    /\ \E i \in 1..Len(coll["user"]) :
         LET d == coll["user"][i] IN
         /\ {"name", "role", "is_active", "avatar_url", "updated_at"} \subseteq DOMAIN d
         /\ d.email = loc[p].req.email
         /\ d.settings = loc[p].req.settings
         /\ d.settings = [lang |-> "en"]

\* C7: health never raises; it reports database "ok" exactly when the store
\* handle is present and list_collection_names succeeds, "error" with no
\* collections when the handle is absent, and "error: ..." when the listing
\* raises.
C7_HealthReportsStore ==
  /\ [](\A p \in Procs : result[p].kind = "error" => result[p].handler # "health")
  /\ [][\A p \in Procs :
          (result'[p] # result[p] /\ result'[p].kind = "health") =>
            LET r == result'[p] IN
            /\ (r.database = <<"ok">>) <=> (dbPresent /\ storeUp)
            /\ ~dbPresent => (r.database = <<"error">> /\ r.collections = {})
            /\ (dbPresent /\ ~storeUp) => r.database[1] = "error:"
            /\ (dbPresent /\ storeUp) => r.collections = created]_vars

C7_OkAndErrorReported ==
  /\ result["w1"].kind = "health"
  /\ result["w1"].database = <<"ok">>
  /\ result["w1"].collections # {}
  /\ result["w2"].kind = "health"
  /\ result["w2"].database[1] = "error:"

\* C8: a returned backtest series has max(5, min(365, days)) entries,
\* stats.start and stats.end are the equity of its first and last entry, and
\* two requests whose day counts clamp to the same value get the same equity
\* values.
ExpectedDays(d) == IF d < 5 THEN 5 ELSE IF d > 365 THEN 365 ELSE d

C8_BacktestClamped ==
  \A p \in Procs :
    result[p].kind = "backtest" =>
      LET r == result[p] IN
      /\ Len(r.series) = ExpectedDays(r.days)
      /\ r.stats.start = r.series[1].equity
      /\ r.stats.end = r.series[Len(r.series)].equity
      /\ \A q \in Procs :
           (result[q].kind = "backtest"
              /\ ExpectedDays(result[q].days) = ExpectedDays(r.days)) =>
             /\ Len(result[q].series) = Len(r.series)
             /\ \A j \in 1..Len(r.series) :
                  result[q].series[j].equity = r.series[j].equity

C8_BelowFiveTwice ==
  /\ result["w1"].kind = "backtest"
  /\ result["w1"].days = 1
  /\ result["w2"].kind = "backtest"
  /\ result["w2"].days = 5
  /\ Len(result["w1"].series) = 5

\* C9: the stored settings map of a user is, as a whole, the map of the
\* update_one applied last to its email, and the document a caller gets back
\* carries the settings stored when it read, whichever caller wrote them.
C9_LastWriterWins ==
  /\ [](\A e \in Emails :
          lastSet[e] # NoSettings =>
            /\ MatchIdx(coll["user"], "email", e) # {}
            /\ FirstUser(coll["user"], e).settings = lastSet[e])
  /\ [][\A p \in Procs :
          (pc[p] = "set_find" /\ pc'[p] = "idle" /\ result'[p].kind = "settings")
            => result'[p].user.settings = lastSet[loc[p].req.email]]_vars

C9_CallerGotOthersSettings ==
  \E p \in Procs : \E q \in Procs \ {p} :
    /\ AllIdle
    /\ result[p].kind = "settings"
    /\ result[q].kind = "settings"
    /\ loc[p].req.email = loc[q].req.email
    /\ loc[p].req.settings # loc[q].req.settings
    /\ result[p].user.settings = loc[q].req.settings
    /\ result[q].user.settings = loc[q].req.settings
    /\ FirstUser(coll["user"], loc[p].req.email).settings = loc[q].req.settings

====
